---------------------------- MODULE Spec2Model ----------------------------
(***************************************************************************)
(* THE TORQUE PARADOX: the bottle physics, the move resolution and the     *)
(* session loop of the four game programs of the repository.               *)
(*                                                                         *)
(*   "PB"  src/game.js     1..517    personal-best variant                 *)
(*   "HS"  src/game.js   521..866    simple variant (plain high scores)    *)
(*   "LB"  src/game.js   870..1373   leaderboard variant                   *)
(*   "TW"  src/unnamed/part_000      time-weighted variant                 *)
(*                                                                         *)
(* The JS objects `state` and `bottle` are the records of the same name.   *)
(* state.history and state.endTime are display data that no rule reads;   *)
(* they are left out.  state.playerId is always DEFAULT_PLAYER_ID.         *)
(* scoreFile is the parsed content of SCORE_FILE.  state.startTime is the  *)
(* origin of `clock`, which is getTimeElapsed() in whole seconds.          *)
(* state.message is display text; it is represented by the kind of text.   *)
(* runGame is an async function: it is cut at its awaits, so every action  *)
(* below is one run-to-completion segment of the Node.js event loop.       *)
(***************************************************************************)
EXTENDS Integers, Sequences, FiniteSets, TLC

VARIABLES variant, state, bottle, pc, clock, outcome, result, scoreFile

vars == <<variant, state, bottle, pc, clock, outcome, result, scoreFile>>

---------------------------------------------------------------------------
(* Program constants *)

TOTAL_LEVELS == 10

MAX_TIME_SECONDS == 300

(* Bounds of the model *)

\* wall-clock time passes in steps of ClockStep seconds
ClockStep == 300

\* the clock is followed until it reaches MaxClock
MaxClock == 600

\* parseInt of a text without digits: a value outside every range drawn here.
\* It is only ever tested with isNaN, as the code tests it before any use.
NaN == 1000000

Variants == {"PB", "HS", "LB", "TW"}

SimpleVariants == {"PB", "HS", "LB"}

\* the draws of Math.floor(Math.random() * 20) that are followed (of 0..19)
Offsets == {0}

\* the draws of Math.random() > 0.5 ? 'CW' : 'ACW'
Directions == {"CW", "ACW"}

\* The lines a player types, each given by what the parsers find in it: the
\* direction word, the force number and (time-weighted variant) the
\* duration number; NaN where there is no number.  The simple variants have
\* no duration in their command and never read one.
ForceInputs(v) == IF v = "TW" THEN {45, 70, 200} ELSE {40, 45, 70}

TimeInputs(v) == IF v = "TW" THEN {30, 300} ELSE {NaN}

ValidInputs(v) ==
    [dir : {"cw", "ACW"}, force : ForceInputs(v), time : TimeInputs(v)]

InvalidInputs(v) ==
    { [dir |-> "up", force |-> 40, time |-> IF v = "TW" THEN 30 ELSE NaN],
      [dir |-> "cw", force |-> NaN, time |-> IF v = "TW" THEN 30 ELSE NaN],
      [dir |-> "ACW", force |-> 0, time |-> IF v = "TW" THEN 30 ELSE NaN],
      [dir |-> "cw", force |-> 40, time |-> IF v = "TW" THEN 0 ELSE NaN],
      [dir |-> "ACW", force |-> 40, time |-> NaN] }

Inputs(v) == ValidInputs(v) \cup InvalidInputs(v)

---------------------------------------------------------------------------
(* JavaScript primitives *)

isNaN(x) == x = NaN

Min(a, b) == IF a < b THEN a ELSE b

Max(a, b) == IF a > b THEN a ELSE b

\* Math.ceil(a / b) for integers a >= 0, b > 0
CeilDiv(a, b) == (a + b - 1) \div b

toLowerCase(w) ==
    CASE w = "CW" -> "cw"
      [] w = "ACW" -> "acw"
      [] w = "UP" -> "up"
      [] OTHER -> w

toUpperCase(w) ==
    CASE w = "cw" -> "CW"
      [] w = "acw" -> "ACW"
      [] w = "up" -> "UP"
      [] OTHER -> w

---------------------------------------------------------------------------
(* Bottle generator: generateBottle(level), identical in the four programs *)

\* the safety margin falling by 0.12 a level
safetyMarginPctSteep(level) == 200 - (level * 12)

\* const safetyMargin = 2.0 - (level * 0.08), in hundredths.
safetyMarginPct(level) == 200 - (level * 8)

\* Math.floor(requiredForce * safetyMargin) in IEEE-754 double arithmetic.
\* 2.0 - 8 * 0.08 evaluates to 1.3599999999999999, just below 1.36, so at
\* level 8 a product that is a whole number in exact arithmetic comes out
\* one lower; for every other level 1..11 and required force 25..94 the
\* double product has the floor of the exact one.
floorCapacity(requiredForce, level) ==
    LET exact == (requiredForce * safetyMarginPct(level)) \div 100
    IN  IF level = 8 /\ (requiredForce * safetyMarginPct(level)) % 100 = 0
        THEN exact - 1
        ELSE exact

\* generateBottle with the floor taken of the exact product
generateBottleExact(level, randomness, lockedDir) ==
    LET baseForce == 20 + (level * 5)
        requiredForce == baseForce + randomness
    IN  [ lockedDir        |-> lockedDir,
          requiredForce    |-> requiredForce,
          maxCapacity      |->
              (requiredForce * safetyMarginPct(level)) \div 100,
          currentTightness |-> 0,
          isOpen           |-> FALSE ]

\* randomness is the draw Math.floor(Math.random() * 20), lockedDir the
\* draw of the direction.
generateBottle(level, randomness, lockedDir) ==
    LET baseForce == 20 + (level * 5)
        requiredForce == baseForce + randomness
    IN  [ lockedDir        |-> lockedDir,
          requiredForce    |-> requiredForce,
          maxCapacity      |-> floorCapacity(requiredForce, level),
          currentTightness |-> 0,
          isOpen           |-> FALSE ]

---------------------------------------------------------------------------
(* Time-weighted variant: parser and cost model *)

\* A line as text: the sequence of its characters.

Digits == {"0", "1", "2", "3", "4", "5", "6", "7", "8", "9"}

digitValue(c) ==
    CASE c = "0" -> 0 [] c = "1" -> 1 [] c = "2" -> 2 [] c = "3" -> 3
      [] c = "4" -> 4 [] c = "5" -> 5 [] c = "6" -> 6 [] c = "7" -> 7
      [] c = "8" -> 8 [] c = "9" -> 9

\* the letters that occur in the lines followed here
upperChar(c) ==
    CASE c = "a" -> "A" [] c = "c" -> "C" [] c = "w" -> "W"
      [] c = "s" -> "S" [] c = "n" -> "N" [] OTHER -> c

lowerChar(c) ==
    CASE c = "A" -> "a" [] c = "C" -> "c" [] c = "W" -> "w"
      [] c = "S" -> "s" [] c = "N" -> "n" [] OTHER -> c

\* String.prototype.toUpperCase on a text
textToUpperCase(text) == [i \in 1..Len(text) |-> upperChar(text[i])]

\* String.prototype.includes
includes(text, word) ==
    \E i \in 1..(Len(text) - Len(word) + 1) :
        SubSeq(text, i, i + Len(word) - 1) = word

\* parseInt(digits, 10) of a text of digits
RECURSIVE parseInt(_)
parseInt(digits) ==
    IF digits = <<>>
    THEN 0
    ELSE (parseInt(SubSeq(digits, 1, Len(digits) - 1)) * 10)
         + digitValue(digits[Len(digits)])

\* the end of the longest run of characters of `class` that starts at
\* position i of the text (i - 1 when text[i] is not of the class)
runEnd(text, i, class) ==
    CHOOSE j \in (i - 1)..Len(text) :
        /\ \A k \in i..j : text[k] \in class
        /\ j = Len(text) \/ text[j + 1] \notin class

\* /(\d+)\s*[units]/ matches with its first character at position i.  \d+
\* and \s* are greedy, and giving back a digit or a blank never helps,
\* since the character after a shorter run is again a digit or a blank.
matchesAt(text, i, units) ==
    /\ text[i] \in Digits
    /\ \E k \in { runEnd(text, runEnd(text, i, Digits) + 1, {" "}) + 1 } :
           k <= Len(text) /\ text[k] \in units

\* input.match(/(\d+)\s*[units]/) and parseInt of its group: the leftmost
\* match is taken; NaN stands for no match.
numberBefore(text, units) ==
    LET starts == { i \in 1..Len(text) : matchesAt(text, i, units) } IN
    IF starts = {}
    THEN NaN
    ELSE LET first == CHOOSE i \in starts : \A j \in starts : i <= j
         IN  parseInt(SubSeq(text, first, runEnd(text, first, Digits)))

\* the three scans of parseSmartInput with the ACW and CW tests swapped
scanLineCwFirst(text) ==
    [dir |-> IF includes(textToUpperCase(text), <<"C", "W">>) THEN "CW"
             ELSE IF includes(textToUpperCase(text), <<"A", "C", "W">>)
             THEN "ACW" ELSE "",
     time |-> numberBefore(text, {"s", "S"}),
     force |-> numberBefore(text, {"n", "N"})]

\* The three scans of parseSmartInput over the text of a line: the
\* direction word found in the upper-cased text ("" for none), the number
\* before s/S and the number before n/N.
scanLine(text) ==
    [dir |-> IF includes(textToUpperCase(text), <<"A", "C", "W">>) THEN "ACW"
             ELSE IF includes(textToUpperCase(text), <<"C", "W">>)
             THEN "CW" ELSE "",
     time |-> numberBefore(text, {"s", "S"}),
     force |-> numberBefore(text, {"n", "N"})]

\* parseSmartInput(input) against state.remainingTime.  The text of the
\* line is represented by what the three scans find in it: the direction
\* word, the number before s/S (time) and the number before n/N (force).
parseSmartInput(st, input) ==
    LET upperInput == toUpperCase(input.dir)
        empty == [direction |-> "", time |-> NaN, force |-> NaN,
                  valid |-> FALSE, error |-> ""]
    IN  IF upperInput # "ACW" /\ upperInput # "CW"
        THEN [empty EXCEPT !.error = "Direction not found"]
        ELSE LET r1 == [empty EXCEPT !.direction = upperInput] IN
        IF isNaN(input.time)
        THEN [r1 EXCEPT !.error = "Time not found"]
        ELSE LET r2 == [r1 EXCEPT !.time = input.time] IN
        IF isNaN(input.force)
        THEN [r2 EXCEPT !.error = "Force not found"]
        ELSE LET r3 == [r2 EXCEPT !.force = input.force] IN
        IF r3.time <= 0
        THEN [r3 EXCEPT !.error = "Time must be greater than 0"]
        ELSE IF r3.force <= 0
        THEN [r3 EXCEPT !.error = "Force must be greater than 0"]
        ELSE IF r3.time > st.remainingTime
        THEN [r3 EXCEPT !.error = "Not enough time remaining"]
        ELSE [r3 EXCEPT !.valid = TRUE]

\* The pairs <<time, baseEnergyLoss>> (time 1..300, base 1..150) for which
\* the double quotient baseEnergyLoss / (time / 10) lies just above a whole
\* number that the exact quotient equals, so that Math.ceil is one higher.
IeeeCeilUp ==
    { <<7, 21>>, <<7, 42>>, <<7, 84>>, <<14, 21>>, <<14, 42>>, <<14, 84>>,
      <<23, 69>>, <<23, 115>>, <<23, 138>>, <<28, 42>>, <<28, 84>>,
      <<41, 123>>, <<46, 69>>, <<46, 115>>, <<46, 138>>, <<56, 84>>,
      <<82, 123>>, <<92, 138>> }

\* calculateEnergyLoss with the base loss multiplied by the time scaling
\* factor instead of divided by it
calculateEnergyLossProportional(time, force) ==
    LET timeScalingTenths == Max(5, time)
        baseEnergyLoss == CeilDiv(force, 2)
        scaledEnergyLoss == CeilDiv(baseEnergyLoss * timeScalingTenths, 10)
        dangerPenalty ==
            IF force > 50 /\ time < 5 THEN CeilDiv(force, 10) ELSE 0
    IN  scaledEnergyLoss + dangerPenalty

\* calculateEnergyLoss(time, force).  timeScalingFactor = max(0.5, time/10)
\* is kept in tenths: max(5, time).
calculateEnergyLoss(time, force) ==
    LET timeScalingTenths == Max(5, time)
        baseEnergyLoss == CeilDiv(force, 2)
        scaledEnergyLoss ==
            CeilDiv(baseEnergyLoss * 10, timeScalingTenths)
            + (IF <<time, baseEnergyLoss>> \in IeeeCeilUp THEN 1 ELSE 0)
        dangerPenalty ==
            IF force > 50 /\ time < 5 THEN CeilDiv(force, 10) ELSE 0
    IN  scaledEnergyLoss + dangerPenalty

\* updateEnergyRecovery without the Math.min(100, ..) and with 30% a tick
updateEnergyRecoveryNoCap(st, currentTime) ==
    IF st.lastRecoveryTick = 0
    THEN [st EXCEPT !.lastRecoveryTick = currentTime]
    ELSE LET secondsElapsed == currentTime - st.lastRecoveryTick IN
         IF secondsElapsed >= 1
         THEN [st EXCEPT !.energy = st.energy + 30,
                         !.lastRecoveryTick = currentTime]
         ELSE st

\* updateEnergyRecovery(currentTime)
updateEnergyRecovery(st, currentTime) ==
    IF st.lastRecoveryTick = 0
    THEN [st EXCEPT !.lastRecoveryTick = currentTime]
    ELSE LET secondsElapsed == currentTime - st.lastRecoveryTick IN
         IF secondsElapsed >= 1
         THEN [st EXCEPT !.energy = Min(100, st.energy + 1),
                         !.lastRecoveryTick = currentTime]
         ELSE st

---------------------------------------------------------------------------
(* Move resolver.  Each processMove returns the new state and bottle and,  *)
(* as `outcome`, the name of the branch of the code that was taken.        *)

\* processMove of the simple variants with one slip of the pen, named by
\* `bug`; the operators that follow it stand in for a processMove.
processMoveSlip(bug, st, bt, input) ==
    LET dir == toLowerCase(input.dir)
        force == input.force
    IN
    IF (dir # "cw" /\ dir # "acw") \/ isNaN(force)
       \/ (IF bug = "zeroForce" THEN force < 0 ELSE force <= 0)
    THEN [state |-> [st EXCEPT !.message = "Invalid command"],
          bottle |-> bt, outcome |-> "InvalidMove"]
    ELSE
    LET energyCost == IF bug = "floorCost" THEN force \div 2
                      ELSE IF bug = "levelCost" /\ st.level > 1
                      THEN CeilDiv(force, 2) + 1
                      ELSE CeilDiv(force, 2)
        st0 == IF bug = "deductFirst"
               THEN [st EXCEPT !.energy = @ - energyCost] ELSE st
    IN
    IF (IF bug = "deductFirst" THEN st0.energy < 0
                               ELSE st.energy < energyCost)
    THEN [state |-> [st0 EXCEPT !.isGameOver = TRUE,
                                !.message = "EXHAUSTED"],
          bottle |-> bt, outcome |-> "Exhausted"]
    ELSE
    LET st1 == [st EXCEPT !.energy = @ - energyCost] IN
    IF bug # "noBreakage" /\ force > bt.maxCapacity
    THEN [state |-> [st1 EXCEPT !.isGameOver = TRUE, !.message = "CRACK"],
          bottle |-> bt, outcome |-> "Shattered"]
    ELSE
    LET attemptDir == toUpperCase(dir) IN
    IF attemptDir = bt.lockedDir
    THEN [state |-> st1,
          bottle |-> [bt EXCEPT !.currentTightness =
                         IF bug = "jamCapped"
                         THEN Min(bt.maxCapacity, @ + force)
                         ELSE @ + force,
                      !.maxCapacity =
                         IF bug = "jamWears" THEN @ - 1 ELSE @],
          outcome |-> "Jammed"]
    ELSE
    IF bt.currentTightness > 0
    THEN IF force >= bt.currentTightness
         THEN LET remainingForce == force - bt.currentTightness
                  bt1 == [bt EXCEPT !.currentTightness = 0]
              IN  IF (IF bug = "strictOpen"
                      THEN remainingForce > bt1.requiredForce
                      ELSE remainingForce >= bt1.requiredForce)
                  THEN [state |-> [st1 EXCEPT !.message = "SUCCESS"],
                        bottle |-> IF bug = "jamStays"
                                   THEN [bt EXCEPT !.isOpen = TRUE]
                                   ELSE [bt1 EXCEPT !.isOpen = TRUE],
                        outcome |-> "Opened"]
                  ELSE [state |-> st1,
                        bottle |-> IF bug = "creditSurplus"
                                   THEN [bt1 EXCEPT !.requiredForce =
                                             @ - remainingForce]
                                   ELSE bt1,
                        outcome |-> "JamCleared"]
         ELSE [state |-> st1,
               bottle |-> [bt EXCEPT !.currentTightness =
                              IF bug = "reduceClears" THEN 0 ELSE @ - force],
               outcome |-> "JamReduced"]
    ELSE IF (IF bug = "strictOpen" THEN force > bt.requiredForce
                                   ELSE force >= bt.requiredForce)
         THEN [state |-> [st1 EXCEPT !.message = "POP"],
               bottle |-> [bt EXCEPT !.isOpen = TRUE],
               outcome |-> "Opened"]
         ELSE [state |-> st1,
               bottle |-> IF bug = "partialCredit"
                          THEN [bt EXCEPT !.requiredForce = @ - force]
                          ELSE bt,
               outcome |-> "TooWeak"]

\* a move that breaks the jam and opens the bottle leaves currentTightness
processMoveJamStays(st, bt, input) ==
    processMoveSlip("jamStays", st, bt, input)

\* a jam wears the bottle: maxCapacity falls by 1
processMoveJamWears(st, bt, input) ==
    processMoveSlip("jamWears", st, bt, input)

\* a move costs one more energy after the first level
processMoveLevelCost(st, bt, input) ==
    processMoveSlip("levelCost", st, bt, input)

\* a jam is capped at maxCapacity
processMoveJamCapped(st, bt, input) ==
    processMoveSlip("jamCapped", st, bt, input)

\* a force below the jam clears the jam
processMoveReduceClears(st, bt, input) ==
    processMoveSlip("reduceClears", st, bt, input)

\* the surplus of a jam-clearing move is taken off requiredForce
processMoveCreditSurplus(st, bt, input) ==
    processMoveSlip("creditSurplus", st, bt, input)

\* a move that is too weak is taken off requiredForce
processMovePartialCredit(st, bt, input) ==
    processMoveSlip("partialCredit", st, bt, input)

\* Math.floor for Math.ceil in the energy cost
processMoveFloorCost(st, bt, input) ==
    processMoveSlip("floorCost", st, bt, input)

\* ">" for ">=" in the two opening tests
processMoveStrictOpen(st, bt, input) ==
    processMoveSlip("strictOpen", st, bt, input)

\* the breakage check left out
processMoveNoBreakage(st, bt, input) ==
    processMoveSlip("noBreakage", st, bt, input)

\* the energy deducted before it is checked
processMoveDeductFirst(st, bt, input) ==
    processMoveSlip("deductFirst", st, bt, input)

\* "force < 0" for "force <= 0" in the validation
processMoveZeroForce(st, bt, input) ==
    processMoveSlip("zeroForce", st, bt, input)

\* processMove(input), personal-best variant.  input.dir is parts[0] before
\* toLowerCase, input.force is parseInt(parts[1]).
processMovePB(st, bt, input) ==
    LET dir == toLowerCase(input.dir)
        force == input.force
    IN
    IF (dir # "cw" /\ dir # "acw") \/ isNaN(force) \/ force <= 0
    THEN [state |-> [st EXCEPT !.message = "Invalid command"],
          bottle |-> bt, outcome |-> "InvalidMove"]
    ELSE
    LET energyCost == CeilDiv(force, 2) IN
    IF st.energy < energyCost
    THEN [state |-> [st EXCEPT !.isGameOver = TRUE, !.message = "EXHAUSTED"],
          bottle |-> bt, outcome |-> "Exhausted"]
    ELSE
    LET st1 == [st EXCEPT !.energy = @ - energyCost] IN
    IF force > bt.maxCapacity
    THEN [state |-> [st1 EXCEPT !.isGameOver = TRUE, !.message = "CRACK"],
          bottle |-> bt, outcome |-> "Shattered"]
    ELSE
    LET attemptDir == toUpperCase(dir) IN
    IF attemptDir = bt.lockedDir
    THEN [state |-> st1,
          bottle |-> [bt EXCEPT !.currentTightness = @ + force],
          outcome |-> "Jammed"]
    ELSE
    IF bt.currentTightness > 0
    THEN IF force >= bt.currentTightness
         THEN LET remainingForce == force - bt.currentTightness
                  bt1 == [bt EXCEPT !.currentTightness = 0]
              IN  IF remainingForce >= bt1.requiredForce
                  THEN [state |-> [st1 EXCEPT !.message = "SUCCESS"],
                        bottle |-> [bt1 EXCEPT !.isOpen = TRUE],
                        outcome |-> "Opened"]
                  ELSE [state |-> st1, bottle |-> bt1,
                        outcome |-> "JamCleared"]
         ELSE [state |-> st1,
               bottle |-> [bt EXCEPT !.currentTightness = @ - force],
               outcome |-> "JamReduced"]
    ELSE IF force >= bt.requiredForce
         THEN [state |-> [st1 EXCEPT !.message = "POP"],
               bottle |-> [bt EXCEPT !.isOpen = TRUE],
               outcome |-> "Opened"]
         ELSE [state |-> st1, bottle |-> bt, outcome |-> "TooWeak"]

\* processMove(input), simple variant.  input.dir is parts[0] before
\* toLowerCase, input.force is parseInt(parts[1]).
processMoveHS(st, bt, input) ==
    LET dir == toLowerCase(input.dir)
        force == input.force
    IN
    IF (dir # "cw" /\ dir # "acw") \/ isNaN(force) \/ force <= 0
    THEN [state |-> [st EXCEPT !.message = "Invalid command"],
          bottle |-> bt, outcome |-> "InvalidMove"]
    ELSE
    LET energyCost == CeilDiv(force, 2) IN
    IF st.energy < energyCost
    THEN [state |-> [st EXCEPT !.isGameOver = TRUE, !.message = "EXHAUSTED"],
          bottle |-> bt, outcome |-> "Exhausted"]
    ELSE
    LET st1 == [st EXCEPT !.energy = @ - energyCost] IN
    IF force > bt.maxCapacity
    THEN [state |-> [st1 EXCEPT !.isGameOver = TRUE, !.message = "CRACK"],
          bottle |-> bt, outcome |-> "Shattered"]
    ELSE
    LET attemptDir == toUpperCase(dir) IN
    IF attemptDir = bt.lockedDir
    THEN [state |-> st1,
          bottle |-> [bt EXCEPT !.currentTightness = @ + force],
          outcome |-> "Jammed"]
    ELSE
    IF bt.currentTightness > 0
    THEN IF force >= bt.currentTightness
         THEN LET remainingForce == force - bt.currentTightness
                  bt1 == [bt EXCEPT !.currentTightness = 0]
              IN  IF remainingForce >= bt1.requiredForce
                  THEN [state |-> [st1 EXCEPT !.message = "SUCCESS"],
                        bottle |-> [bt1 EXCEPT !.isOpen = TRUE],
                        outcome |-> "Opened"]
                  ELSE [state |-> st1, bottle |-> bt1,
                        outcome |-> "JamCleared"]
         ELSE [state |-> st1,
               bottle |-> [bt EXCEPT !.currentTightness = @ - force],
               outcome |-> "JamReduced"]
    ELSE IF force >= bt.requiredForce
         THEN [state |-> [st1 EXCEPT !.message = "POP"],
               bottle |-> [bt EXCEPT !.isOpen = TRUE],
               outcome |-> "Opened"]
         ELSE [state |-> st1, bottle |-> bt, outcome |-> "TooWeak"]

\* processMove(input), leaderboard variant.  input.dir is parts[0] before
\* toLowerCase, input.force is parseInt(parts[1]).
processMoveLB(st, bt, input) ==
    LET dir == toLowerCase(input.dir)
        force == input.force
    IN
    IF (dir # "cw" /\ dir # "acw") \/ isNaN(force) \/ force <= 0
    THEN [state |-> [st EXCEPT !.message = "Invalid command"],
          bottle |-> bt, outcome |-> "InvalidMove"]
    ELSE
    LET energyCost == CeilDiv(force, 2) IN
    IF st.energy < energyCost
    THEN [state |-> [st EXCEPT !.isGameOver = TRUE, !.message = "EXHAUSTED"],
          bottle |-> bt, outcome |-> "Exhausted"]
    ELSE
    LET st1 == [st EXCEPT !.energy = @ - energyCost] IN
    IF force > bt.maxCapacity
    THEN [state |-> [st1 EXCEPT !.isGameOver = TRUE, !.message = "CRACK"],
          bottle |-> bt, outcome |-> "Shattered"]
    ELSE
    LET attemptDir == toUpperCase(dir) IN
    IF attemptDir = bt.lockedDir
    THEN [state |-> st1,
          bottle |-> [bt EXCEPT !.currentTightness = @ + force],
          outcome |-> "Jammed"]
    ELSE
    IF bt.currentTightness > 0
    THEN IF force >= bt.currentTightness
         THEN LET remainingForce == force - bt.currentTightness
                  bt1 == [bt EXCEPT !.currentTightness = 0]
              IN  IF remainingForce >= bt1.requiredForce
                  THEN [state |-> [st1 EXCEPT !.message = "SUCCESS"],
                        bottle |-> [bt1 EXCEPT !.isOpen = TRUE],
                        outcome |-> "Opened"]
                  ELSE [state |-> st1, bottle |-> bt1,
                        outcome |-> "JamCleared"]
         ELSE [state |-> st1,
               bottle |-> [bt EXCEPT !.currentTightness = @ - force],
               outcome |-> "JamReduced"]
    ELSE IF force >= bt.requiredForce
         THEN [state |-> [st1 EXCEPT !.message = "POP"],
               bottle |-> [bt EXCEPT !.isOpen = TRUE],
               outcome |-> "Opened"]
         ELSE [state |-> st1, bottle |-> bt, outcome |-> "TooWeak"]

\* processMove(input), time-weighted variant.
processMoveTW(st, bt, input) ==
    LET parsed == parseSmartInput(st, input) IN
    IF ~parsed.valid
    THEN [state |-> [st EXCEPT !.message = "Invalid command"],
          bottle |-> bt,
          outcome |-> IF parsed.error = "Not enough time remaining"
                      THEN "InsufficientTime" ELSE "InvalidMove"]
    ELSE
    LET direction == parsed.direction
        timeApplied == parsed.time
        force == parsed.force
    IN
    IF timeApplied > st.remainingTime
    THEN [state |-> [st EXCEPT !.message = "Invalid command"],
          bottle |-> bt, outcome |-> "InsufficientTime"]
    ELSE
    LET energyCost == calculateEnergyLoss(timeApplied, force) IN
    IF st.energy < energyCost
    THEN [state |-> [st EXCEPT !.isGameOver = TRUE, !.message = "EXHAUSTED"],
          bottle |-> bt, outcome |-> "Exhausted"]
    ELSE
    LET st1 == [st EXCEPT !.energy = @ - energyCost,
                          !.remainingTime = @ - timeApplied] IN
    IF force > bt.maxCapacity
    THEN [state |-> [st1 EXCEPT !.isGameOver = TRUE, !.message = "CRACK"],
          bottle |-> bt, outcome |-> "Shattered"]
    ELSE
    LET attemptDir == toUpperCase(direction) IN
    IF attemptDir = bt.lockedDir
    THEN [state |-> st1,
          bottle |-> [bt EXCEPT !.currentTightness = @ + force],
          outcome |-> "Jammed"]
    ELSE
    IF bt.currentTightness > 0
    THEN IF force >= bt.currentTightness
         THEN LET remainingForce == force - bt.currentTightness
                  bt1 == [bt EXCEPT !.currentTightness = 0]
              IN  IF remainingForce >= bt1.requiredForce
                  THEN [state |-> [st1 EXCEPT !.message = "SUCCESS"],
                        bottle |-> [bt1 EXCEPT !.isOpen = TRUE],
                        outcome |-> "Opened"]
                  ELSE [state |-> st1, bottle |-> bt1,
                        outcome |-> "JamCleared"]
         ELSE [state |-> st1,
               bottle |-> [bt EXCEPT !.currentTightness = @ - force],
               outcome |-> "JamReduced"]
    ELSE IF force >= bt.requiredForce
         THEN [state |-> [st1 EXCEPT !.message = "POP"],
               bottle |-> [bt EXCEPT !.isOpen = TRUE],
               outcome |-> "Opened"]
         ELSE [state |-> st1, bottle |-> bt, outcome |-> "TooWeak"]

\* processMove with the duration deducted after the breakage check, so
\* that a shattering move does not use up its time
processMoveTimeAfterBreakage(v, st, bt, input) ==
    LET r == CASE v = "PB" -> processMovePB(st, bt, input)
               [] v = "HS" -> processMoveHS(st, bt, input)
               [] v = "LB" -> processMoveLB(st, bt, input)
               [] v = "TW" -> processMoveTW(st, bt, input)
    IN  IF r.outcome = "Shattered"
        THEN [r EXCEPT !.state.remainingTime = st.remainingTime]
        ELSE r

\* the processMove of the program that is running
processMove(v, st, bt, input) ==
    CASE v = "PB" -> processMovePB(st, bt, input)
      [] v = "HS" -> processMoveHS(st, bt, input)
      [] v = "LB" -> processMoveLB(st, bt, input)
      [] v = "TW" -> processMoveTW(st, bt, input)

---------------------------------------------------------------------------
(* Session controller: runGame *)

NoResult ==
    [completed |-> FALSE, timeUsed |-> 0, energyRemaining |-> 0,
     totalScore |-> 0]

\* getTimeElapsed(): whole seconds since state.startTime
getTimeElapsed(clk) == clk

\* the game-over sequence with the simple variant's score in every program
gameOverSequenceFlatScore(v, st, clk) ==
    LET timeUsed == getTimeElapsed(clk)
        energyRemaining == st.energy
    IN  IF st.level > TOTAL_LEVELS
        THEN [completed |-> TRUE, timeUsed |-> timeUsed,
              energyRemaining |-> energyRemaining,
              totalScore |->
                  ((MAX_TIME_SECONDS - timeUsed) * 10) + st.energy]
        ELSE [completed |-> FALSE, timeUsed |-> timeUsed,
              energyRemaining |-> energyRemaining, totalScore |-> 0]

\* The game-over sequence after the loop: the branch taken and the score.
gameOverSequence(v, st, clk) ==
    LET timeUsed == getTimeElapsed(clk)
        energyRemaining == st.energy
    IN  IF st.level > TOTAL_LEVELS
        THEN [completed |-> TRUE, timeUsed |-> timeUsed,
              energyRemaining |-> energyRemaining,
              totalScore |->
                  IF v = "HS"
                  THEN ((MAX_TIME_SECONDS - timeUsed) * 10) + st.energy
                  ELSE ((MAX_TIME_SECONDS - timeUsed) * 100)
                       + (energyRemaining * 10)]
        ELSE [completed |-> FALSE, timeUsed |-> timeUsed,
              energyRemaining |-> energyRemaining, totalScore |-> 0]

---------------------------------------------------------------------------
(* Persistence: SCORE_FILE.  scoreFile is the parsed content of the file:  *)
(* the array loadHighScores() returns, or the object loadPersonalBests()   *)
(* returns as a function from player ids to records.  A missing file is    *)
(* read as [] or {}, which is <<>> in both shapes.  The date and timestamp *)
(* fields of a record are not read by any rule; they are left out.         *)

DEFAULT_PLAYER_ID == "player_default"

\* scores.sort((a, b) => b.score - a.score): Array.prototype.sort is
\* stable, so an element stays behind the earlier elements of equal score.
RECURSIVE sortDescending(_)
sortDescending(scores) ==
    IF Len(scores) <= 1
    THEN scores
    ELSE LET front == sortDescending(SubSeq(scores, 1, Len(scores) - 1))
             last == scores[Len(scores)]
             k == Cardinality({ i \in 1..Len(front) :
                                    front[i].score >= last.score })
         IN  SubSeq(front, 1, k) \o <<last>>
                 \o SubSeq(front, k + 1, Len(front))

\* scores.sort(...) without the comparator's sign: ascending order
RECURSIVE sortAscending(_)
sortAscending(scores) ==
    IF Len(scores) <= 1
    THEN scores
    ELSE LET front == sortAscending(SubSeq(scores, 1, Len(scores) - 1))
             last == scores[Len(scores)]
             k == Cardinality({ i \in 1..Len(front) :
                                    front[i].score <= last.score })
         IN  SubSeq(front, 1, k) \o <<last>>
                 \o SubSeq(front, k + 1, Len(front))

\* scores.slice(0, n)
slice(scores, n) == SubSeq(scores, 1, Min(n, Len(scores)))

\* saveHighScore of the simple variant keeping the five lowest scores
saveHighScoreHSAscending(scores, score, time) ==
    slice(sortAscending(Append(scores, [score |-> score, time |-> time])),
          5)

\* saveHighScore(score) of the simple variant; time is getTimeElapsed().
saveHighScoreHS(scores, score, time) ==
    slice(sortDescending(Append(scores, [score |-> score, time |-> time])),
          5)

\* saveHighScore(timeUsed, energyRemaining, playerName) of the leaderboard
\* variant: the file written and the newScore returned.  newScore is the
\* object pushed last, so after the stable sort it is the last element
\* equal to it; forEach writes its rank in place.
saveHighScoreLB(scores, timeUsed, energyRemaining, playerName) ==
    LET timeScore == (MAX_TIME_SECONDS - timeUsed) * 100
        energyBonus == energyRemaining * 10
        totalScore == timeScore + energyBonus
        newScore == [rank |-> Len(scores) + 1, playerName |-> playerName,
                     score |-> totalScore, timeUsed |-> timeUsed,
                     energyRemaining |-> energyRemaining]
        sorted == sortDescending(Append(scores, newScore))
        index == CHOOSE i \in 1..Len(sorted) :
                     /\ sorted[i] = newScore
                     /\ \A j \in (i + 1)..Len(sorted) : sorted[j] # newScore
        ranked == [i \in 1..Len(sorted) |-> [sorted[i] EXCEPT !.rank = i]]
    IN  [scores |-> slice(ranked, 10), newScore |-> ranked[index]]

\* isHighScore with >= for the comparison with the last entry
isHighScoreOnTie(scores, score) ==
    IF Len(scores) < 10
    THEN TRUE
    ELSE score >= scores[Len(scores)].score

\* isHighScore(score) of the leaderboard variant
isHighScore(scores, score) ==
    IF Len(scores) < 10
    THEN TRUE
    ELSE score > scores[Len(scores)].score

\* savePersonalBest without the comparison with the previous best: the
\* latest run is stored
savePersonalBestLatest(personalBests, playerId, timeUsed, energyRemaining) ==
    LET timeScore == (MAX_TIME_SECONDS - timeUsed) * 100
        energyBonus == energyRemaining * 10
        totalScore == timeScore + energyBonus
        newScore == [playerId |-> playerId, score |-> totalScore,
                     timeUsed |-> timeUsed,
                     energyRemaining |-> energyRemaining]
    IN  [personalBests |->
             [p \in DOMAIN personalBests \cup {playerId} |->
                 IF p = playerId THEN newScore ELSE personalBests[p]],
         isNewPB |-> TRUE]

\* savePersonalBest(playerId, timeUsed, energyRemaining): the file after
\* the call and the isNewPB it returns.
savePersonalBest(personalBests, playerId, timeUsed, energyRemaining) ==
    LET timeScore == (MAX_TIME_SECONDS - timeUsed) * 100
        energyBonus == energyRemaining * 10
        totalScore == timeScore + energyBonus
        newScore == [playerId |-> playerId, score |-> totalScore,
                     timeUsed |-> timeUsed,
                     energyRemaining |-> energyRemaining]
    IN  IF playerId \in DOMAIN personalBests
           /\ personalBests[playerId].score >= totalScore
        THEN [personalBests |-> personalBests, isNewPB |-> FALSE]
        ELSE [personalBests |->
                  [p \in DOMAIN personalBests \cup {playerId} |->
                      IF p = playerId THEN newScore ELSE personalBests[p]],
              isNewPB |-> TRUE]

\* The names typed at "Enter your name for the leaderboard: "
PlayerNames == {"Ann"}

\* The writes to SCORE_FILE of the game-over sequence up to its first
\* await.  The leaderboard variant with a high score waits for the name.
\* playerId is state.playerId.
gameOverSave(v, file, res, playerId) ==
    IF ~res.completed
    THEN file
    ELSE CASE v = "HS" -> saveHighScoreHS(file, res.totalScore, res.timeUsed)
           [] v = "LB" ->
                  IF isHighScore(file, res.totalScore)
                  THEN file
                  ELSE saveHighScoreLB(file, res.timeUsed,
                                       res.energyRemaining, "Player").scores
           [] OTHER ->
                  savePersonalBest(file, playerId, res.timeUsed,
                                   res.energyRemaining).personalBests

\* The write to SCORE_FILE after the name prompt of the leaderboard
\* variant.
namedSave(v, file, res, playerName) ==
    IF v = "LB" /\ res.completed /\ isHighScore(file, res.totalScore)
    THEN saveHighScoreLB(file, res.timeUsed, res.energyRemaining,
                         playerName).scores
    ELSE file

\* The loop of runGame with one slip of the pen, named by `bug`; the
\* operators that follow it stand in for whileLoop.
whileLoopSlip(bug, v, st, bt, clk, fresh) ==
    IF ~(~st.isGameOver
         /\ st.level <= (IF bug = "offByOne" THEN TOTAL_LEVELS + 1
                                              ELSE TOTAL_LEVELS))
    THEN [state |-> st, bottle |-> bt, pc |-> "done",
          result |-> gameOverSequence(v, st, clk)]
    ELSE
    LET setup == ~bt.isOpen /\ bt.requiredForce = 0
        bt1 == IF setup THEN fresh ELSE bt
        st1 == IF setup
               THEN [st EXCEPT !.energy = Min(100, @ + 20),
                               !.message = "Level Started"]
               ELSE st
        timeUp == IF v = "TW"
                  THEN st1.remainingTime <= 0
                  ELSE getTimeElapsed(clk) >= MAX_TIME_SECONDS
    IN  IF timeUp
        THEN LET st2 == [st1 EXCEPT !.isGameOver = TRUE,
                                    !.message = "TIMES UP"]
             IN  IF bug = "noBreak"
                 THEN [state |-> st2, bottle |-> bt1, pc |-> "await",
                       result |-> NoResult]
                 ELSE [state |-> st2, bottle |-> bt1, pc |-> "done",
                       result |-> gameOverSequence(v, st2, clk)]
        ELSE [state |-> st1, bottle |-> bt1, pc |-> "await",
              result |-> NoResult]

\* the loop runs while level <= TOTAL_LEVELS + 1
whileLoopOffByOne(v, st, bt, clk, fresh) ==
    whileLoopSlip("offByOne", v, st, bt, clk, fresh)

\* the time check sets isGameOver but does not break out of the loop
whileLoopNoBreak(v, st, bt, clk, fresh) ==
    whileLoopSlip("noBreak", v, st, bt, clk, fresh)

\* The while loop of runGame from its condition to the next await: the
\* level setup, the time check and either the wait for a line or, when the
\* loop is left, the game-over sequence.  fresh is the bottle generateBottle
\* produces should the level setup run.
whileLoop(v, st, bt, clk, fresh) ==
    IF ~(~st.isGameOver /\ st.level <= TOTAL_LEVELS)
    THEN [state |-> st, bottle |-> bt, pc |-> "done",
          result |-> gameOverSequence(v, st, clk)]
    ELSE
    LET setup == ~bt.isOpen /\ bt.requiredForce = 0
        bt1 == IF setup THEN fresh ELSE bt
        st1 == IF setup
               THEN [st EXCEPT !.energy = Min(100, @ + 20),
                               !.message = "Level Started"]
               ELSE st
        timeUp == IF v = "TW"
                  THEN st1.remainingTime <= 0
                  ELSE getTimeElapsed(clk) >= MAX_TIME_SECONDS
    IN  IF timeUp
        THEN LET st2 == [st1 EXCEPT !.isGameOver = TRUE,
                                    !.message = "TIMES UP"]
             IN  [state |-> st2, bottle |-> bt1, pc |-> "done",
                  result |-> gameOverSequence(v, st2, clk)]
        ELSE [state |-> st1, bottle |-> bt1, pc |-> "await",
              result |-> NoResult]

\* The bottles the next pass of the loop can draw: Math.random is consumed
\* only when the level setup runs.
freshBottles(st, bt) ==
    IF ~bt.isOpen /\ bt.requiredForce = 0
    THEN { generateBottle(st.level, randomness, lockedDir) :
               randomness \in Offsets, lockedDir \in Directions }
    ELSE { bt }

\* the level completion block without `bottle.isOpen = false`
levelCompleteStaysOpen(st, bt) ==
    [state |-> [st EXCEPT !.level = @ + 1],
     bottle |-> [bt EXCEPT !.requiredForce = 0]]

\* the level completion block without `bottle.requiredForce = 0`
levelCompleteKeepsBottle(st, bt) ==
    [state |-> [st EXCEPT !.level = @ + 1],
     bottle |-> [bt EXCEPT !.isOpen = FALSE]]

\* the level completion block with level += 2
levelCompleteSkip(st, bt) ==
    [state |-> [st EXCEPT !.level = @ + 2],
     bottle |-> [bt EXCEPT !.requiredForce = 0, !.isOpen = FALSE]]

\* The level completion block of runGame after its sleep(2000).
levelComplete(st, bt) ==
    [state |-> [st EXCEPT !.level = @ + 1],
     bottle |-> [bt EXCEPT !.requiredForce = 0, !.isOpen = FALSE]]

\* The callback of UI_TICKER.  renderInterface and rl.prompt write to the
\* terminal only.
uiTicker(v, st, bt, clk) ==
    IF ~st.isGameOver /\ bt.requiredForce # 0
    THEN IF v = "TW"
         THEN updateEnergyRecovery(st, getTimeElapsed(clk))
         ELSE st
    ELSE st

---------------------------------------------------------------------------
(* The state machine *)

Init ==
    /\ variant \in Variants
    /\ state = [level |-> 1, energy |-> 100,
                remainingTime |-> MAX_TIME_SECONDS, isGameOver |-> FALSE,
                message |-> "Welcome", lastRecoveryTick |-> 0]
    /\ bottle = [lockedDir |-> "CW", requiredForce |-> 0, maxCapacity |-> 0,
                 currentTightness |-> 0, isOpen |-> FALSE]
    /\ pc = "intro"
    /\ clock = 0
    /\ outcome = "None"
    /\ result = NoResult
    /\ scoreFile = <<>>

\* The variables after a segment of runGame that ends at `nxt`.
Becomes(next) ==
    \E nxt \in { next } :
        /\ state' = nxt.state
        /\ bottle' = nxt.bottle
        /\ pc' = nxt.pc
        /\ result' = nxt.result
        /\ scoreFile' = IF nxt.pc = "done"
                        THEN gameOverSave(variant, scoreFile, nxt.result,
                                          DEFAULT_PLAYER_ID)
                        ELSE scoreFile

\* runGame from its start to the first wait for a line.  PB and TW set
\* state.startTime here, HS and LB when the program is loaded.
Start ==
    /\ pc = "intro"
    /\ \E st0 \in { IF variant = "TW"
                     THEN [state EXCEPT
                             !.remainingTime = MAX_TIME_SECONDS,
                             !.lastRecoveryTick = getTimeElapsed(clock)]
                     ELSE state } :
       \E fresh \in freshBottles(st0, bottle) :
           Becomes(whileLoop(variant, st0, bottle, clock, fresh))
    /\ UNCHANGED <<variant, clock, outcome>>

\* The segment of a line with an await between the energy deduction and
\* the direction logic of processMove: it ends, back at the event loop,
\* with the cost paid and the bottle not yet touched.
lineSegmentAwaitInside(v, st, bt, clk, res, input) ==
    { [state |-> [r.state EXCEPT !.isGameOver = st.isGameOver],
       bottle |-> bt, pc |-> "await", result |-> res,
       outcome |-> r.outcome] :
      r \in { processMove(v, st, bt, input) } }

\* A line arrives while runGame waits for it: processMove, the level
\* completion check and, unless the bottle opened, the loop up to the next
\* wait.  lineSegment is the set of outcomes of that segment, one for each
\* draw of Math.random it can make.
lineSegment(v, st, bt, clk, res, input) ==
    UNION { IF r.bottle.isOpen
            THEN { [state |-> r.state, bottle |-> r.bottle, pc |-> "sleep",
                    result |-> res, outcome |-> r.outcome] }
            ELSE { [state |-> nxt.state, bottle |-> nxt.bottle,
                    pc |-> nxt.pc, result |-> nxt.result,
                    outcome |-> r.outcome] :
                   nxt \in { whileLoop(v, r.state, r.bottle, clk, fresh) :
                             fresh \in freshBottles(r.state, r.bottle) } }
            : r \in { processMove(v, st, bt, input) } }

LineStep(input) ==
    /\ pc = "await"
    /\ \E nxt \in lineSegment(variant, state, bottle, clock, result, input) :
        /\ Becomes(nxt)
        /\ outcome' = nxt.outcome
    /\ UNCHANGED <<variant, clock>>

Line == \E input \in Inputs(variant) : LineStep(input)

\* The sleep(2000) after a level ends: the level advances and the loop runs
\* to the next wait.
SleepDone ==
    /\ pc = "sleep"
    /\ \E adv \in { levelComplete(state, bottle) } :
       \E fresh \in freshBottles(adv.state, adv.bottle) :
           Becomes(whileLoop(variant, adv.state, adv.bottle, clock, fresh))
    /\ UNCHANGED <<variant, clock, outcome>>

\* UI_TICKER fires: between setInterval and clearInterval, while runGame
\* is suspended at an await.
Tick ==
    /\ pc \in {"await", "sleep"}
    /\ state' = uiTicker(variant, state, bottle, clock)
    /\ UNCHANGED <<variant, bottle, pc, clock, outcome, result, scoreFile>>

\* Wall-clock time passes.  Before PB and TW set state.startTime,
\* getTimeElapsed() is 0.  The simple variants read the clock only to
\* compare it with MAX_TIME_SECONDS, so it is followed until it is there.
Advance ==
    /\ pc \notin {"done", "exited"}
    /\ variant \in {"PB", "TW"} => pc # "intro"
    /\ clock < MaxClock
    /\ variant \in SimpleVariants => clock < MAX_TIME_SECONDS
    /\ clock' = clock + ClockStep
    /\ UNCHANGED <<variant, state, bottle, pc, outcome, result, scoreFile>>

\* The lines after the game-over sequence: the name for the leaderboard,
\* where it is asked, and the key press before process.exit(0).
Exit ==
    /\ pc = "done"
    /\ pc' = "exited"
    /\ \E playerName \in PlayerNames :
           scoreFile' = namedSave(variant, scoreFile, result, playerName)
    /\ UNCHANGED <<variant, state, bottle, clock, outcome, result>>

Next == Start \/ Line \/ SleepDone \/ Tick \/ Advance \/ Exit

Spec == Init /\ [][Next]_vars

---------------------------------------------------------------------------
(* The generator over all its draws: the same program, followed for every *)
(* draw of Math.random, with a player who answers each bottle with the    *)
(* move against lockedDir at exactly requiredForce.                       *)

\* Math.floor(Math.random() * RandomRange) is in 0..RandomRange - 1
RandomRange == 20

AllOffsets == 0..(RandomRange - 1)

\* every bottle the level setup can generate
allBottles(st, bt) ==
    IF ~bt.isOpen /\ bt.requiredForce = 0
    THEN { generateBottle(st.level, randomness, lockedDir) :
               randomness \in AllOffsets, lockedDir \in Directions }
    ELSE { bt }

\* the line that turns against lockedDir with force requiredForce
exactMove(v, bt) ==
    [dir |-> IF bt.lockedDir = "CW" THEN "acw" ELSE "cw",
     force |-> bt.requiredForce,
     time |-> IF v = "TW" THEN 25 ELSE NaN]

GenStart ==
    /\ pc = "intro"
    /\ \E st0 \in { IF variant = "TW"
                     THEN [state EXCEPT
                             !.remainingTime = MAX_TIME_SECONDS,
                             !.lastRecoveryTick = getTimeElapsed(clock)]
                     ELSE state } :
       \E fresh \in allBottles(st0, bottle) :
           Becomes(whileLoop(variant, st0, bottle, clock, fresh))
    /\ UNCHANGED <<variant, clock, outcome>>

GenLine ==
    /\ pc = "await"
    /\ LineStep(exactMove(variant, bottle))

GenSleepDone ==
    /\ pc = "sleep"
    /\ \E adv \in { levelComplete(state, bottle) } :
       \E fresh \in allBottles(adv.state, adv.bottle) :
           Becomes(whileLoop(variant, adv.state, adv.bottle, clock, fresh))
    /\ UNCHANGED <<variant, clock, outcome>>

GenNext == GenStart \/ GenLine \/ GenSleepDone \/ Exit

GenSpec == Init /\ [][GenNext]_vars

---------------------------------------------------------------------------
(* What the claims speak of *)

\* the direction of the move a line asks for
moveDir(input) == toUpperCase(input.dir)

\* the line passes validation (and, time-weighted, the time test)
validMove(v, st, input) ==
    /\ moveDir(input) \in {"CW", "ACW"}
    /\ ~isNaN(input.force) /\ input.force > 0
    /\ v = "TW" => /\ ~isNaN(input.time) /\ input.time > 0
                   /\ input.time <= st.remainingTime

\* the energy cost of a valid move under the variant's cost model
moveCost(v, input) ==
    IF v = "TW" THEN calculateEnergyLoss(input.time, input.force)
                ELSE CeilDiv(input.force, 2)

\* the move passes validation and the energy check
passesEnergy(v, st, input) ==
    validMove(v, st, input) /\ st.energy >= moveCost(v, input)

\* the outcomes of a move that reached the direction logic
PhysicsOutcomes == {"Jammed", "JamReduced", "JamCleared", "TooWeak", "Opened"}

\* the time check of the loop would end the run
timeExpired(v, st, clk) ==
    IF v = "TW" THEN st.remainingTime <= 0 ELSE clk >= MAX_TIME_SECONDS

---------------------------------------------------------------------------
(* Claims *)

\* the outcomes of the segment that the line `input` starts in this state
afterLine(input) ==
    lineSegment(variant, state, bottle, clock, result, input)

\* C1: a move that passes validation, the energy check and the breakage
\* check on a closed bottle opens it if and only if it goes against
\* lockedDir and force - currentTightness (before the move) reaches
\* requiredForce; a move in lockedDir never opens it.
C1_OpensIff ==
    pc = "await" =>
    \A input \in Inputs(variant) : \A nxt \in afterLine(input) :
        ( /\ ~bottle.isOpen
          /\ passesEnergy(variant, state, input)
          /\ input.force <= bottle.maxCapacity )
        => ( /\ nxt.outcome \in PhysicsOutcomes
             /\ nxt.bottle.isOpen <=>
                  ( /\ moveDir(input) # bottle.lockedDir
                    /\ input.force - bottle.currentTightness
                         >= bottle.requiredForce ) )

\* C1 witness: a jammed bottle has been opened by one move.
C1_Witness ==
    outcome = "Opened" /\ bottle.isOpen /\ state.message = "SUCCESS"

\* C2: a move that passes the energy check with force > maxCapacity ends the
\* run as Shattered, whatever its direction; currentTightness, isOpen and
\* level stay as they were and the run is not Completed.
C2_BreakagePrecedence ==
    pc = "await" =>
    \A input \in Inputs(variant) : \A nxt \in afterLine(input) :
        ( /\ passesEnergy(variant, state, input)
          /\ input.force > bottle.maxCapacity )
        => ( /\ nxt.outcome = "Shattered"
             /\ nxt.state.isGameOver
             /\ nxt.pc = "done"
             /\ ~nxt.result.completed
             /\ nxt.bottle.currentTightness = bottle.currentTightness
             /\ nxt.bottle.isOpen = bottle.isOpen
             /\ nxt.state.level = state.level )

\* C2 witness: a jammed bottle has been shattered.
C2_Witness ==
    /\ outcome = "Shattered" /\ state.message = "CRACK"
    /\ state.isGameOver /\ bottle.currentTightness > 0

\* C3: a valid move whose energy cost exceeds the energy ends the run as
\* Exhausted, also when force > maxCapacity; energy, remainingTime,
\* currentTightness and isOpen stay as they were.
C3_EnergyPrecedence ==
    pc = "await" =>
    \A input \in Inputs(variant) : \A nxt \in afterLine(input) :
        ( /\ validMove(variant, state, input)
          /\ moveCost(variant, input) > state.energy )
        => ( /\ nxt.outcome = "Exhausted"
             /\ nxt.state.isGameOver
             /\ nxt.pc = "done"
             /\ ~nxt.result.completed
             /\ nxt.state.energy = state.energy
             /\ nxt.state.remainingTime = state.remainingTime
             /\ nxt.bottle = bottle )

\* C3 witness: the run ended Exhausted with energy left and a jam in place.
C3_Witness ==
    /\ outcome = "Exhausted" /\ state.isGameOver
    /\ state.energy > 0 /\ bottle.currentTightness > 0

\* C4 (as stated): in the variants that measure the budget with the wall
\* clock, no run is Completed with an elapsed time of MAX_TIME_SECONDS or
\* more.
C4_NoLateCompletion ==
    (variant \in SimpleVariants /\ result.completed)
        => result.timeUsed < MAX_TIME_SECONDS

\* C5 (as stated): the step that follows an Opened outcome, for each of the
\* levels, sets energy to min(100, energy + 20).
C5_RefillOnCompletion ==
    [][ (pc = "sleep" /\ pc' # "sleep")
            => state'.energy = Min(100, state.energy + 20) ]_vars

\* C6: in every reachable state 0 <= energy <= 100.
C6_EnergyRange ==
    state.energy \in 0..100

\* C6 witness: a passive recovery tick has run into the cap of 100 after a
\* move had lowered the energy.
C6_Witness ==
    /\ variant = "TW" /\ state.energy = 100 /\ pc = "await"
    /\ outcome \in PhysicsOutcomes /\ state.lastRecoveryTick > 0

\* C7 (as stated): in every reachable state level is in 1..TOTAL_LEVELS.
C7_LevelInRange ==
    state.level \in 1..TOTAL_LEVELS

\* C7 (amended): level is in 1..TOTAL_LEVELS + 1, and it is
\* TOTAL_LEVELS + 1 exactly in the terminal states of a Completed run.
C7_LevelRangeAmended ==
    /\ state.level \in 1..(TOTAL_LEVELS + 1)
    /\ state.level = TOTAL_LEVELS + 1
         <=> (pc \in {"done", "exited"} /\ result.completed)

\* C7 witness: the tenth bottle has been opened and the run is Completed.
C7_Witness ==
    state.level = TOTAL_LEVELS + 1 /\ result.completed

\* C8: level changes only by +1, and only in the step that follows a move
\* which opened the current bottle; it never decreases.
C8_LevelStep ==
    [][ state'.level # state.level
            => ( /\ state'.level = state.level + 1
                 /\ pc = "sleep"
                 /\ bottle.isOpen
                 /\ outcome = "Opened" ) ]_vars

\* C8 witness: level 3 has been reached by opening two bottles.
C8_Witness ==
    state.level = 3 /\ pc = "await" /\ outcome = "Opened"

\* C9: a line that fails validation (or, time-weighted, asks for more time
\* than remains) is resolved as InvalidMove or InsufficientTime; processMove
\* leaves the bottle and every field of the state but the message as they
\* were, and the run goes on to wait for the next line, unless the time
\* check of the loop finds the budget spent and ends it as TIMES UP.
C9_RejectedMoveNoEffect ==
    pc = "await" =>
    \A input \in Inputs(variant) :
        ~validMove(variant, state, input) =>
        /\ \A r \in { processMove(variant, state, bottle, input) } :
            /\ r.outcome \in {"InvalidMove", "InsufficientTime"}
            /\ r.bottle = bottle
            /\ r.state = [state EXCEPT !.message = r.state.message]
        /\ \A nxt \in afterLine(input) :
            /\ nxt.outcome \in {"InvalidMove", "InsufficientTime"}
            /\ nxt.bottle = bottle
            /\ nxt.state.level = state.level
            /\ nxt.state.energy = state.energy
            /\ nxt.state.remainingTime = state.remainingTime
            /\ IF timeExpired(variant, state, clock)
               THEN nxt.pc = "done" /\ nxt.state.message = "TIMES UP"
               ELSE /\ nxt.pc = "await"
                    /\ nxt.state.isGameOver = state.isGameOver

\* C9 witness: a time-weighted move was refused for lack of time and the
\* run waits for the next line.
C9_Witness ==
    /\ outcome = "InsufficientTime" /\ pc = "await"
    /\ ~state.isGameOver /\ state.remainingTime < MAX_TIME_SECONDS

\* C10: once the session is terminal (isGameOver, or level > TOTAL_LEVELS)
\* no step changes level, energy, remainingTime, currentTightness or isOpen.
C10_TerminalFrozen ==
    [][ (state.isGameOver \/ state.level > TOTAL_LEVELS)
            => ( /\ state'.level = state.level
                 /\ state'.energy = state.energy
                 /\ state'.remainingTime = state.remainingTime
                 /\ state'.isGameOver = state.isGameOver
                 /\ bottle'.currentTightness = bottle.currentTightness
                 /\ bottle'.isOpen = bottle.isOpen ) ]_vars

\* C10 witness: a Failed run has taken its last step, the exit.
C10_Witness ==
    pc = "exited" /\ state.isGameOver /\ ~result.completed

\* the move passes validation, the energy check and the breakage check
resolvedMove(v, st, bt, input) ==
    passesEnergy(v, st, input) /\ input.force <= bt.maxCapacity

\* C11: a move in lockedDir that passes the energy and breakage checks adds
\* exactly its force to currentTightness, with no upper bound, and leaves
\* the bottle closed and otherwise as it was.
C11_JamAddsForce ==
    pc = "await" =>
    \A input \in Inputs(variant) : \A nxt \in afterLine(input) :
        ( /\ resolvedMove(variant, state, bottle, input)
          /\ moveDir(input) = bottle.lockedDir )
        => ( /\ nxt.outcome = "Jammed"
             /\ nxt.bottle =
                  [bottle EXCEPT !.currentTightness = @ + input.force]
             /\ ~nxt.bottle.isOpen )

\* C11 witness: two jams of 40 and 45 on the level-1 bottle have summed to
\* 85, above its maxCapacity of 48.
C11_Witness ==
    /\ outcome = "Jammed" /\ bottle.currentTightness = 85
    /\ bottle.maxCapacity = 48 /\ ~bottle.isOpen

\* C12: with currentTightness = T > 0, a resolved move against lockedDir
\* with force f < T leaves currentTightness = T - f, the bottle closed and
\* the level as it was.
C12_JamConservation ==
    pc = "await" =>
    \A input \in Inputs(variant) : \A nxt \in afterLine(input) :
        ( /\ resolvedMove(variant, state, bottle, input)
          /\ moveDir(input) # bottle.lockedDir
          /\ bottle.currentTightness > 0
          /\ input.force < bottle.currentTightness )
        => ( /\ nxt.outcome = "JamReduced"
             /\ nxt.bottle =
                  [bottle EXCEPT !.currentTightness = @ - input.force]
             /\ ~nxt.bottle.isOpen
             /\ nxt.state.level = state.level )

\* C12 witness: a jam has been reduced and part of it is left.
C12_Witness ==
    outcome = "JamReduced" /\ bottle.currentTightness > 0 /\ pc = "await"

\* C13: with currentTightness = T > 0, a resolved move against lockedDir
\* with force f >= T leaves currentTightness = 0; when f - T < requiredForce
\* the bottle stays closed with its requiredForce as it was, and every move
\* that opens it afterwards has force >= requiredForce.
C13_JamCleared ==
    pc = "await" =>
    \A input \in Inputs(variant) : \A nxt \in afterLine(input) :
        ( /\ resolvedMove(variant, state, bottle, input)
          /\ moveDir(input) # bottle.lockedDir
          /\ bottle.currentTightness > 0
          /\ input.force >= bottle.currentTightness )
        => ( /\ nxt.bottle.currentTightness = 0
             /\ (input.force - bottle.currentTightness
                     < bottle.requiredForce)
                => ( /\ nxt.outcome = "JamCleared"
                     /\ nxt.bottle = [bottle EXCEPT !.currentTightness = 0]
                     /\ ~nxt.bottle.isOpen
                     /\ \A again \in Inputs(variant) :
                          processMove(variant, nxt.state, nxt.bottle,
                                      again).bottle.isOpen
                              => again.force >= bottle.requiredForce ) )

\* C13 witness: a jam has been cleared by a move whose surplus did not
\* reach requiredForce, and the run waits for the next line.
C13_Witness ==
    /\ outcome = "JamCleared" /\ pc = "await"
    /\ bottle.currentTightness = 0 /\ ~bottle.isOpen

\* C14: on an unjammed bottle a resolved move against lockedDir with
\* force < requiredForce leaves the bottle entirely as it was.
C14_NoPartialCredit ==
    pc = "await" =>
    \A input \in Inputs(variant) : \A nxt \in afterLine(input) :
        ( /\ resolvedMove(variant, state, bottle, input)
          /\ moveDir(input) # bottle.lockedDir
          /\ bottle.currentTightness = 0
          /\ input.force < bottle.requiredForce )
        => ( /\ nxt.outcome = "TooWeak"
             /\ nxt.bottle = bottle
             /\ nxt.state.level = state.level )

\* C14 witness: a move was too weak for an unjammed bottle.
C14_Witness ==
    /\ outcome = "TooWeak" /\ pc = "await"
    /\ bottle.currentTightness = 0 /\ ~bottle.isOpen

\* C15: in the force-only variants every valid move with
\* energy >= ceil(force / 2) lowers the energy by exactly ceil(force / 2),
\* whether it then shatters, jams, reduces or clears a jam, is too weak, or
\* opens the bottle.
C15_SimpleCost ==
    (pc = "await" /\ variant \in SimpleVariants) =>
    \A input \in Inputs(variant) : \A nxt \in afterLine(input) :
        ( /\ validMove(variant, state, input)
          /\ 2 * state.energy >= input.force )
        => ( /\ nxt.state.energy = state.energy - ((input.force + 1) \div 2)
             /\ nxt.outcome \in PhysicsOutcomes \cup {"Shattered"}
             /\ nxt.outcome = "Shattered"
                    <=> input.force > bottle.maxCapacity )

\* C15 witness: a force of 70 has shattered the level-1 bottle and its cost
\* of 35 is gone from the energy.
C15_Witness ==
    /\ variant \in SimpleVariants /\ outcome = "Shattered"
    /\ state.level = 1 /\ state.energy = 65

\* C16: every generated bottle, for every level 1..TOTAL_LEVELS and every
\* offset 0..19, has maxCapacity >= requiredForce, and the move with force
\* exactly requiredForce never shatters it.
C16_CapacityOrdering ==
    /\ bottle.requiredForce # 0 => bottle.maxCapacity >= bottle.requiredForce
    /\ outcome # "Shattered"

\* C16 witness: the level-10 bottle of offset 19 (requiredForce 89,
\* maxCapacity 106) has been opened by a move of force 89.
C16_Witness ==
    /\ state.level = TOTAL_LEVELS /\ bottle.requiredForce = 89
    /\ bottle.maxCapacity = 106 /\ outcome = "Opened" /\ bottle.isOpen

\* the bottle is one generateBottle(level) yields, with maxCapacity as
\* given
generatedAs(bt, level, maxCapacity) ==
    /\ bt.requiredForce - (20 + (5 * level)) \in 0..19
    /\ bt.maxCapacity = maxCapacity
    /\ bt.lockedDir \in {"CW", "ACW"}
    /\ bt.currentTightness = 0
    /\ ~bt.isOpen

\* floor(requiredForce * (2.0 - 0.08 * level)) in exact arithmetic
exactCapacity(requiredForce, level) ==
    (requiredForce * (200 - (8 * level))) \div 100

\* the same in IEEE-754 doubles: 2.0 - 8 * 0.08 is 1.3599999999999999 and
\* 75 times that is just below 102
doubleCapacity(requiredForce, level) ==
    IF level = 8 /\ requiredForce = 75
    THEN 101
    ELSE exactCapacity(requiredForce, level)

\* the session fields after a level setup are those before it but for the
\* level advance that precedes it and the +20 energy of the setup itself
setupKeepsSession ==
    /\ state'.level = IF pc = "sleep" THEN state.level + 1 ELSE state.level
    /\ state'.energy = Min(100, state.energy + 20)
    /\ state'.remainingTime = state.remainingTime
    /\ state'.isGameOver = state.isGameOver

\* C17 (as stated): a level setup yields a bottle with requiredForce =
\* 20 + 5 * level + r, r in 0..19, maxCapacity = the floor of the exact
\* product requiredForce * (2.0 - 0.08 * level), lockedDir CW or ACW,
\* currentTightness 0 and isOpen false, and no session field is changed by
\* the generation.
C17_GenerateExact ==
    [][ (pc \in {"intro", "sleep"} /\ pc' = "await")
            => ( /\ generatedAs(bottle', state'.level,
                                exactCapacity(bottle'.requiredForce,
                                              state'.level))
                 /\ setupKeepsSession ) ]_vars

\* C17 (amended): the same with maxCapacity as the double-precision
\* expression gives it, which is 101 and not 102 at level 8 with
\* requiredForce 75 and the exact floor everywhere else.
C17_GenerateDouble ==
    [][ (pc \in {"intro", "sleep"} /\ pc' = "await")
            => ( /\ generatedAs(bottle', state'.level,
                                doubleCapacity(bottle'.requiredForce,
                                               state'.level))
                 /\ setupKeepsSession ) ]_vars

\* C17 witness: level 8 has drawn offset 15.
C17_Witness ==
    /\ state.level = 8 /\ pc = "await" /\ bottle.requiredForce = 75
    /\ bottle.maxCapacity = 101 /\ bottle.currentTightness = 0

\* C18 (as stated): in every variant a tick of the display refresh leaves
\* level, energy, remainingTime, isGameOver and the bottle as they are.
C18_TickChangesNothing ==
    pc \in {"await", "sleep"} =>
    \A after \in { uiTicker(variant, state, bottle, clock) } :
        /\ after.level = state.level
        /\ after.energy = state.energy
        /\ after.remainingTime = state.remainingTime
        /\ after.isGameOver = state.isGameOver

\* what the last resolved line left behind, whole
settled ==
    /\ ~state.isGameOver
    /\ state.level <= TOTAL_LEVELS
    /\ outcome \notin {"Exhausted", "Shattered"}
    /\ bottle.isOpen <=> pc = "sleep"
    /\ bottle.isOpen => (outcome = "Opened" /\ bottle.currentTightness = 0)
    /\ outcome = "Jammed" => bottle.currentTightness > 0
    /\ outcome = "JamReduced" => bottle.currentTightness > 0
    /\ outcome = "JamCleared" => bottle.currentTightness = 0
    /\ outcome = "TooWeak" => bottle.currentTightness = 0

\* C19: a tick runs only between whole moves: wherever the ticker can fire,
\* the energy, the bottle and isGameOver are those of a fully applied or
\* fully rejected move.
C19_TickSeesWholeMoves ==
    ENABLED Tick => settled

\* C19 witness: the ticker can fire on a time-weighted jam that has been
\* paid for in energy and time and applied to the bottle.
C19_Witness ==
    /\ variant = "TW" /\ pc = "await" /\ outcome = "Jammed"
    /\ state.remainingTime = MAX_TIME_SECONDS - 30
    /\ state.energy < 100 /\ bottle.currentTightness = 45

\* C20: an open bottle accepts no move: the bottle is open only during the
\* level-completion delay, where no line reaches processMove.
C20_OpenBottleNoMoves ==
    bottle.isOpen => (pc = "sleep" /\ ~ENABLED Line)

\* C20 witness: the bottle is open and a tick has run during the delay.
C20_Witness ==
    /\ bottle.isOpen /\ pc = "sleep" /\ variant = "TW"
    /\ clock > 0 /\ state.lastRecoveryTick = clock

---------------------------------------------------------------------------
(* Bottle lifecycle *)

\* A step in which the level setup of runGame runs: the first pass of the
\* loop, and the pass after a level completion that leaves a level to play.
levelSetupStep ==
    \/ pc = "intro" /\ pc' # "intro"
    \/ pc = "sleep" /\ pc' # "sleep" /\ state'.level <= TOTAL_LEVELS

\* bt is a bottle as generateBottle leaves it when called for `level`
bottleOfLevel(bt, level) ==
    /\ bt.requiredForce - (20 + (level * 5)) \in AllOffsets
    /\ bt.maxCapacity >= bt.requiredForce
    /\ bt.currentTightness = 0
    /\ ~bt.isOpen

\* C21: the session owns one live bottle.  generateBottle runs exactly in
\* the level setup steps, once for each level the session reaches, when the
\* bottle before it is not a live one (it was never generated, or it was
\* opened and reset), and in no other step; wherever a line is awaited, the
\* bottle is the unopened bottle generated for the current level, so no
\* move is resolved against a bottle whose requiredForce is 0.
C21_OneLiveBottle ==
    [][ /\ levelSetupStep =>
            /\ bottleOfLevel(bottle', state'.level)
            /\ bottle.isOpen \/ bottle.requiredForce = 0
        /\ ~levelSetupStep =>
            /\ bottle'.requiredForce \in {bottle.requiredForce, 0}
            /\ bottle'.lockedDir = bottle.lockedDir
            /\ bottle'.maxCapacity = bottle.maxCapacity
        /\ pc' = "await" =>
            /\ bottle'.requiredForce # 0
            /\ ~bottle'.isOpen
            /\ bottle'.requiredForce - (20 + (state'.level * 5))
                   \in AllOffsets ]_vars

\* C21 witness: the third level's bottle, generated after two completions,
\* has had a move resolved against it and a line is awaited.
C21_Witness ==
    /\ pc = "await" /\ state.level = 3
    /\ bottle.requiredForce = 35 /\ bottle.currentTightness > 0

\* C22 as stated: from one generateBottle call to the next, no step of a
\* move, of the controller or of the ticker changes lockedDirection,
\* requiredForce or maxCapacity of the bottle.
C22_BottleImmutable ==
    [][ ~levelSetupStep =>
            /\ bottle'.lockedDir = bottle.lockedDir
            /\ bottle'.requiredForce = bottle.requiredForce
            /\ bottle'.maxCapacity = bottle.maxCapacity ]_vars

\* C22 amended: outside the level setup no step changes lockedDirection or
\* maxCapacity, and requiredForce is changed by one step only: the level
\* completion block sets it to 0, which after the last level is not
\* followed by a generateBottle call.  No move and no tick changes any of
\* the three.
C22_BottleImmutableUntilReset ==
    [][ ~levelSetupStep =>
            /\ bottle'.lockedDir = bottle.lockedDir
            /\ bottle'.maxCapacity = bottle.maxCapacity
            /\ \/ bottle'.requiredForce = bottle.requiredForce
               \/ /\ pc = "sleep" /\ bottle.isOpen
                  /\ state'.level > TOTAL_LEVELS
                  /\ bottle'.requiredForce = 0 ]_vars

\* C22 witness: the tenth bottle was opened by a move and reset by the
\* level completion block: its requiredForce is 0 while its lockedDir and
\* maxCapacity are still the generated ones.
C22_Witness ==
    /\ pc = "done" /\ result.completed /\ outcome = "Opened"
    /\ bottle.requiredForce = 0 /\ bottle.maxCapacity = 84
    /\ bottle.lockedDir = "ACW"

---------------------------------------------------------------------------
(* Move resolution as a function *)

\* the outcomes of processMove; InsufficientTime exists only where moves
\* have a duration
MoveOutcomes(v) ==
    {"InvalidMove", "Exhausted", "Shattered", "Jammed", "JamReduced",
     "JamCleared", "TooWeak", "Opened"}
    \cup (IF v = "TW" THEN {"InsufficientTime"} ELSE {})

\* the fields of state and bottle that a call of processMove that returned
\* r has changed; state.message is display text and is not counted
changedFields(st, bt, r) ==
    { f \in {"level", "energy", "remainingTime", "isGameOver",
             "lastRecoveryTick"} : r.state[f] # st[f] }
    \cup
    { f \in {"lockedDir", "requiredForce", "maxCapacity",
             "currentTightness", "isOpen"} : r.bottle[f] # bt[f] }

\* the fields each branch of processMove assigns
assignedFields(v, tag) ==
    LET paid == {"energy"} \cup (IF v = "TW" THEN {"remainingTime"} ELSE {})
    IN  CASE tag \in {"InvalidMove", "InsufficientTime"} -> {}
          [] tag = "Exhausted" -> {"isGameOver"}
          [] tag = "Shattered" -> paid \cup {"isGameOver"}
          [] tag \in {"Jammed", "JamReduced", "JamCleared"} ->
                 paid \cup {"currentTightness"}
          [] tag = "TooWeak" -> paid
          [] tag = "Opened" -> paid \cup {"isOpen", "currentTightness"}

\* what a move resolution depends on: its result without the display text
resolution(r) ==
    [energy |-> r.state.energy, remainingTime |-> r.state.remainingTime,
     isGameOver |-> r.state.isGameOver, bottle |-> r.bottle,
     outcome |-> r.outcome]

---------------------------------------------------------------------------
(* The cost model of the time-weighted variant over its inputs: the same  *)
(* program, followed for every first move of a session with a duration up *)
(* to CostMaxDuration seconds and a force up to CostMaxForce newtons.     *)

CostMaxDuration == 30

CostMaxForce == 84

CostInputs ==
    [dir : {"cw", "ACW"}, force : 1..CostMaxForce,
     time : 1..CostMaxDuration]

\* a session of the time-weighted program
TimedInit == Init /\ variant = "TW"

\* the first line of the session
CostLine ==
    /\ pc = "await"
    /\ state.level = 1 /\ state.remainingTime = MAX_TIME_SECONDS
    /\ \E input \in CostInputs : LineStep(input)

CostNext == Start \/ CostLine \/ SleepDone \/ Exit

CostSpec == TimedInit /\ [][CostNext]_vars

\* ceil(ceil(f/2) / max(0.5, d/10)) + (ceil(f/10) if f > 50 and d < 5),
\* in exact arithmetic
exactEnergyLoss(d, f) ==
    CeilDiv(CeilDiv(f, 2) * 10, Max(5, d))
    + (IF f > 50 /\ d < 5 THEN CeilDiv(f, 10) ELSE 0)

\* C24 as stated: a move of duration d and force f that passes the energy
\* check costs ceil(ceil(f/2) / max(0.5, d/10)), plus ceil(f/10) when
\* f > 50 and d < 5, evaluated in exact arithmetic.
C24_ExactEnergyLoss ==
    (pc = "await" /\ state.remainingTime = MAX_TIME_SECONDS) =>
    \A input \in CostInputs :
    \A nxt \in lineSegment(variant, state, bottle, clock, result, input) :
        nxt.outcome \notin {"InvalidMove", "InsufficientTime", "Exhausted"}
        => state.energy - nxt.state.energy
               = exactEnergyLoss(input.time, input.force)

---------------------------------------------------------------------------
(* Time budget of the time-weighted variant *)

\* the sessions of the time-weighted program alone
TimedSpec == TimedInit /\ [][Next]_vars

\* C25: in the time-weighted variant remainingTime is 300 less the
\* durations of the moves that passed the energy check, shattering moves
\* included: it is 300 until the first line is awaited, a move that passes
\* the energy check takes exactly its duration off it, every other line,
\* the ticker and the level completion leave it alone; and it stays in
\* 0..300.
C25_TimeBudget ==
    variant = "TW" =>
    /\ state.remainingTime \in 0..MAX_TIME_SECONDS
    /\ pc = "intro" => state.remainingTime = MAX_TIME_SECONDS
    /\ pc = "await" =>
           \A input \in Inputs(variant) : \A nxt \in afterLine(input) :
               nxt.state.remainingTime
               = state.remainingTime
                 - (IF passesEnergy(variant, state, input)
                    THEN input.time ELSE 0)
    /\ pc \in {"await", "sleep"} =>
           uiTicker(variant, state, bottle, clock).remainingTime
           = state.remainingTime
    /\ pc = "sleep" =>
           \A adv \in { levelComplete(state, bottle) } :
           \A fresh \in freshBottles(adv.state, adv.bottle) :
               whileLoop(variant, adv.state, adv.bottle, clock,
                         fresh).state.remainingTime
               = state.remainingTime

\* C25 witness: a move of 30 seconds passed the energy check and shattered
\* the bottle after an earlier move of 30 seconds: 240 seconds remain.
C25_Witness ==
    /\ variant = "TW" /\ outcome = "Shattered" /\ pc = "done"
    /\ state.remainingTime = MAX_TIME_SECONDS - 60

---------------------------------------------------------------------------
(* Score *)

\* C26: the score of a completed run is (300 - elapsed) * 100 +
\* floor(energy * 10) in the personal-best, leaderboard and time-weighted
\* variants and (300 - elapsed) * 10 + energy in the simple variant, with
\* the elapsed seconds and the energy of the moment the loop is left; the
\* energy bonus is in 0..1000.  (Nothing moves after the loop is left, so
\* clock and state.energy are those of that moment.)
C26_CompletedScore ==
    result.completed =>
        /\ pc \in {"done", "exited"}
        /\ state.energy \in 0..100
        /\ result.totalScore =
               IF variant = "HS"
               THEN ((MAX_TIME_SECONDS - clock) * 10) + state.energy
               ELSE ((MAX_TIME_SECONDS - clock) * 100) + (state.energy * 10)
        /\ variant # "HS" =>
               result.totalScore - ((MAX_TIME_SECONDS - clock) * 100)
                   \in 0..1000

\* C26 witness: a run of the simple variant was completed after time had
\* passed and with energy left.
C26_Witness ==
    /\ result.completed /\ variant = "HS"
    /\ clock > 0 /\ state.energy > 0 /\ pc = "exited"

---------------------------------------------------------------------------
(* Energy promises of the rules *)

\* C27 as stated: the player starts each level with 100% energy: when the
\* level setup has generated the bottle of a level and the first move of
\* the level is awaited, energy is 100.
C27_FullEnergyEachLevel ==
    [][ (levelSetupStep /\ pc' = "await") => state'.energy = 100 ]_vars

\* C28 as stated: if energy hits 0 the player faints and the run is over:
\* in no state with energy 0 is the session in progress and a line awaited.
C28_FaintAtZero ==
    state.energy = 0 => ~(pc = "await" /\ ~state.isGameOver)

---------------------------------------------------------------------------
(* The parser of the time-weighted variant over the text of its lines:    *)
(* the same program, followed for the first command of a session typed    *)
(* with its three tokens in every order and every mix of cases.           *)

ParseDurations == {7, 30, 120, 300}

ParseForces == {5, 25, 30, 42, 45, 200}

\* the decimal numeral of n < 1000, as the player types it
numeral(n) ==
    LET digit(k) == CHOOSE c \in Digits : digitValue(c) = k IN
    IF n < 10 THEN << digit(n) >>
    ELSE IF n < 100 THEN << digit(n \div 10), digit(n % 10) >>
    ELSE << digit(n \div 100), digit((n \div 10) % 10), digit(n % 10) >>

\* a word in every mix of upper and lower case
casings(word) ==
    { t \in [1..Len(word) ->
                 UNION { {word[i], lowerChar(word[i])} : i \in 1..Len(word) }] :
          \A i \in 1..Len(word) : t[i] \in {word[i], lowerChar(word[i])} }

TokenOrders ==
    { <<1, 2, 3>>, <<1, 3, 2>>, <<2, 1, 3>>, <<2, 3, 1>>, <<3, 1, 2>>,
      <<3, 2, 1>> }

\* the three tokens in the given order, a blank between them
lineOf(order, tokens) ==
    tokens[order[1]] \o <<" ">> \o tokens[order[2]] \o <<" ">>
    \o tokens[order[3]]

\* The lines made of a direction word, a duration <d>s and a force <f>n,
\* each with what it means.
WellFormedLines ==
    { [text |-> lineOf(order, << word, numeral(d) \o <<s>>,
                                 numeral(f) \o <<n>> >>),
       dir |-> IF Len(word) = 3 THEN "ACW" ELSE "CW",
       time |-> d, force |-> f] :
      order \in TokenOrders,
      word \in casings(<<"C", "W">>) \cup casings(<<"A", "C", "W">>),
      s \in {"s", "S"}, n \in {"n", "N"},
      d \in ParseDurations, f \in ParseForces }

\* lines without a direction, without a duration, without a force, and
\* with a duration of 0
MalformedTexts ==
    { <<"3", "0", "s", " ", "4", "5", "n">>,
      <<"c", "w", " ", "4", "5", "n">>,
      <<"a", "c", "w", " ", "3", "0", "s">>,
      <<"c", "w", " ", "0", "s", " ", "4", "5", "n">> }

ParseTexts == { l.text : l \in WellFormedLines } \cup MalformedTexts

\* the first command of the session, typed until it is accepted
ParseLine ==
    /\ pc = "await"
    /\ state.level = 1 /\ state.remainingTime = MAX_TIME_SECONDS
    /\ \E text \in ParseTexts : LineStep(scanLine(text))

ParseNext == Start \/ ParseLine \/ SleepDone \/ Exit

ParseSpec == TimedInit /\ [][ParseNext]_vars

\* C29: the parser of the time-weighted variant is independent of order
\* and case: a line made of a direction word, <d>s and <f>n parses to the
\* same direction, duration and force whatever the order of the three
\* tokens and the case of their letters, and a line with ACW is read as
\* ACW, never as CW.
C29_ParserOrderAndCase ==
    (pc = "await" /\ state.remainingTime = MAX_TIME_SECONDS) =>
    \A l \in WellFormedLines :
        /\ scanLine(l.text) = [dir |-> l.dir, time |-> l.time,
                               force |-> l.force]
        /\ \E parsed \in { parseSmartInput(state, scanLine(l.text)) } :
               /\ parsed.valid
               /\ parsed.direction = l.dir
               /\ parsed.time = l.time
               /\ parsed.force = l.force

\* C29 witness: a command with ACW, a duration of 120 and a force of 42 was
\* accepted and jammed the bottle locked ACW.
C29_Witness ==
    /\ variant = "TW" /\ pc = "await" /\ outcome = "Jammed"
    /\ bottle.lockedDir = "ACW" /\ bottle.currentTightness = 42
    /\ state.remainingTime = MAX_TIME_SECONDS - 120

---------------------------------------------------------------------------
(* Passive recovery *)

\* C30 as stated: in the time-weighted variant passive recovery restores 1
\* energy for each elapsed second, capped at 100, whenever the ticker
\* fires: a tick that finds k seconds elapsed since the last second it
\* accounted for (the start of the session at first) leaves
\* energy + min(k, 100 - energy).
C30_RecoveryPerSecond ==
    (variant = "TW" /\ pc \in {"await", "sleep"}) =>
        uiTicker(variant, state, bottle, clock).energy
        = Min(100, state.energy + (clock - state.lastRecoveryTick))

---------------------------------------------------------------------------
(* The four programs side by side *)

\* what a resolved move did to the bottle
physics(r) ==
    [shattered |-> r.outcome = "Shattered",
     currentTightness |-> r.bottle.currentTightness,
     isOpen |-> r.bottle.isOpen]

\* the move got past validation and the energy check
paidMove(r) ==
    r.outcome \notin {"InvalidMove", "InsufficientTime", "Exhausted"}

\* C31: the four processMove agree on the bottle physics: for the same
\* bottle, direction and force, whenever the move passes the energy check
\* of each of them, they agree on whether the bottle shatters and leave
\* the same currentTightness and isOpen.
C31_SamePhysics ==
    pc = "await" =>
    \A dir \in {"cw", "ACW"} :
    \A force \in ForceInputs("PB") \cup ForceInputs("TW") :
    \A time \in TimeInputs("TW") :
    \A input \in { [dir |-> dir, force |-> force, time |-> time] } :
    \A rPB \in { processMovePB(state, bottle, input) } :
    \A rHS \in { processMoveHS(state, bottle, input) } :
    \A rLB \in { processMoveLB(state, bottle, input) } :
    \A rTW \in { processMoveTW(state, bottle, input) } :
        (paidMove(rPB) /\ paidMove(rHS) /\ paidMove(rLB) /\ paidMove(rTW))
        => /\ physics(rHS) = physics(rPB)
           /\ physics(rLB) = physics(rPB)
           /\ physics(rTW) = physics(rPB)

\* C31 witness: a jammed bottle on which a move of 45 against the lock
\* passes the energy check of the simple and of the time-weighted
\* processMove and clears the jam in both.
C31_Witness ==
    /\ pc = "await" /\ bottle.currentTightness > 0
    /\ \E input \in { [dir |-> IF bottle.lockedDir = "CW" THEN "acw"
                                                         ELSE "cw",
                       force |-> 45, time |-> 30] } :
           /\ processMoveHS(state, bottle, input).outcome = "JamCleared"
           /\ processMoveTW(state, bottle, input).outcome = "JamCleared"
           /\ processMoveHS(state, bottle, input).state.energy
                  # processMoveTW(state, bottle, input).state.energy

---------------------------------------------------------------------------
(* Shape of the time-weighted cost *)

\* the energy the first move of a session pays for duration d and force f
energyPaid(d, f) ==
    state.energy
    - processMove(variant, state, bottle,
                  [dir |-> "cw", force |-> f, time |-> d]).state.energy

\* C32: calculateEnergyLoss is monotone in each argument: for a fixed
\* force a longer duration never costs more, and for a fixed duration a
\* larger force never costs less.
C32_CostMonotone ==
    (pc = "await" /\ state.remainingTime = MAX_TIME_SECONDS) =>
    \A d \in 1..CostMaxDuration : \A f \in 1..CostMaxForce :
    \A paid \in { energyPaid(d, f) } :
        /\ paid >= 1
        /\ d < CostMaxDuration => energyPaid(d + 1, f) <= paid
        /\ f < CostMaxForce => energyPaid(d, f + 1) >= paid

\* C32 witness: a move of 42 newtons over 7 seconds has been made and has
\* cost 31 energy, one more than the same force over 8 seconds would.
C32_Witness ==
    /\ pc = "await" /\ outcome = "Jammed" /\ bottle.currentTightness = 42
    /\ state.remainingTime = MAX_TIME_SECONDS - 7
    /\ state.energy = 100 - 31

---------------------------------------------------------------------------
(* The score file over many sessions: the program is started again and    *)
(* again on the same SCORE_FILE.  A session is followed from its start to  *)
(* process.exit as one step, for every completed run of the bounds below.  *)

\* getTimeElapsed() at the end of a completed run
RunTimes == {100, 101}

\* state.energy at the end of a completed run
RunEnergies == {10, 20}

\* the player ids savePersonalBest is called with
PlayerIds == {DEFAULT_PLAYER_ID, "player_two"}

\* the run of a session that ends Completed at timeUsed with energy left
completedRun(v, st, timeUsed, energy) ==
    gameOverSequence(v, [st EXCEPT !.level = TOTAL_LEVELS + 1,
                                   !.energy = energy], timeUsed)

BoardRun ==
    /\ pc \in {"intro", "exited"}
    /\ \E timeUsed \in RunTimes, energy \in RunEnergies,
          playerId \in PlayerIds, playerName \in PlayerNames :
       \E res \in { completedRun(variant, state, timeUsed, energy) } :
           /\ result' = res
           /\ scoreFile' =
                  namedSave(variant,
                            gameOverSave(variant, scoreFile, res, playerId),
                            res, playerName)
           /\ pc' = "exited"
    /\ UNCHANGED <<variant, state, bottle, clock, outcome>>

BoardNext == BoardRun

BoardSpec == Init /\ [][BoardNext]_vars

\* scores[1] >= scores[2] >= ... by the score field
sortedByScore(scores) ==
    \A i \in 1..(Len(scores) - 1) : scores[i].score >= scores[i + 1].score

\* C33: whatever runs were saved, the persisted list holds at most 10
\* entries (at most 5 in the simple variant) in non-increasing order of
\* score, and in the leaderboard variant the entry at position i has
\* rank i.
C33_BoardShape ==
    /\ variant = "HS" => Len(scoreFile) <= 5 /\ sortedByScore(scoreFile)
    /\ variant = "LB" =>
           /\ Len(scoreFile) <= 10
           /\ sortedByScore(scoreFile)
           /\ \A i \in 1..Len(scoreFile) : scoreFile[i].rank = i

\* a full leaderboard with a tie in it, after a run that fell off it
C33_Witness ==
    /\ variant = "LB" /\ pc = "exited"
    /\ Len(scoreFile) = 10
    /\ scoreFile[1].score > scoreFile[10].score
    /\ \E i \in 1..9 : /\ scoreFile[i].score = scoreFile[i + 1].score
                       /\ scoreFile[i].timeUsed # scoreFile[i + 1].timeUsed
    /\ result.totalScore < scoreFile[10].score

\* the new entry of saved = saveHighScoreLB(...) is in the file it wrote
entryKept(saved) ==
    /\ saved.newScore.rank <= Len(saved.scores)
    /\ saved.scores[saved.newScore.rank] = saved.newScore

\* C34: on every leaderboard the program can have written, isHighScore(s)
\* is true exactly when the saveHighScore that follows for a run of score s
\* leaves the new entry in the persisted list; a score equal to the 10th
\* entry's is not a high score and its entry is not kept.
C34_HighScoreIffKept ==
    variant = "LB" =>
        \A timeUsed \in RunTimes : \A energy \in RunEnergies :
        \A playerName \in PlayerNames \cup {"Player"} :
        \A res \in { completedRun(variant, state, timeUsed, energy) } :
            isHighScore(scoreFile, res.totalScore)
                <=> entryKept(saveHighScoreLB(scoreFile, timeUsed, energy,
                                              playerName))

\* a full leaderboard after a run whose score equals the 10th entry's and
\* whose entry is not in the file
C34_Witness ==
    /\ variant = "LB" /\ pc = "exited"
    /\ Len(scoreFile) = 10
    /\ result.totalScore = scoreFile[10].score
    /\ \A i \in 1..10 : scoreFile[i].timeUsed # result.timeUsed
    /\ ~isHighScore(scoreFile, result.totalScore)

\* a step in which the run just completed is player playerId's: the stored
\* score becomes the greater of the stored one and the run's, the record
\* stays unless the run's score is strictly greater, and the other
\* players' records stay
recordsRunOf(playerId) ==
    /\ playerId \in DOMAIN scoreFile'
    /\ scoreFile'[playerId].score =
           IF playerId \in DOMAIN scoreFile
           THEN Max(scoreFile[playerId].score, result'.totalScore)
           ELSE result'.totalScore
    /\ (playerId \in DOMAIN scoreFile
            /\ scoreFile[playerId].score >= result'.totalScore)
           => scoreFile'[playerId] = scoreFile[playerId]
    /\ \A p \in PlayerIds \ {playerId} :
           /\ (p \in DOMAIN scoreFile' <=> p \in DOMAIN scoreFile)
           /\ (p \in DOMAIN scoreFile => scoreFile'[p] = scoreFile[p])

\* C35: a completed run of a player replaces that player's stored record
\* only when its score is strictly greater than the stored one, so the
\* stored score becomes the greater of the two and never decreases; the
\* records of the other players stay as they are.
C35_PersonalBestIsMax ==
    [][(variant \in {"PB", "TW"})
           => (\E playerId \in PlayerIds : recordsRunOf(playerId))]_vars

\* both players hold a record and the last run scored below both
C35_Witness ==
    /\ variant = "PB" /\ pc = "exited"
    /\ DOMAIN scoreFile = PlayerIds
    /\ \A p \in PlayerIds : scoreFile[p].score > result.totalScore
    /\ scoreFile[DEFAULT_PLAYER_ID].score # scoreFile["player_two"].score

\* C36: in every reachable state an open bottle has no jam left:
\* bottle.isOpen implies bottle.currentTightness = 0.
C36_OpenMeansNoJam ==
    bottle.isOpen => bottle.currentTightness = 0

\* a bottle opened by a move that first broke a jam
C36_Witness ==
    /\ pc = "sleep" /\ bottle.isOpen
    /\ outcome = "Opened" /\ state.message = "SUCCESS"
    /\ bottle.currentTightness = 0

\* C37: no reachable state has both state.isGameOver and
\* state.level > TOTAL_LEVELS, so the branch on level > TOTAL_LEVELS of the
\* game-over sequence separates the completed runs from the failed ones.
C37_CompletedXorFailed ==
    ~(state.isGameOver /\ state.level > TOTAL_LEVELS)

\* a completed run, past the last level and not game over
C37_Witness ==
    /\ pc = "done" /\ result.completed
    /\ state.level = TOTAL_LEVELS + 1 /\ ~state.isGameOver
    /\ clock >= MAX_TIME_SECONDS

\* C38: in the three programs of game.js, where a move of force f costs
\* ceil(f / 2), bottle.currentTightness + 2 * state.energy <= 200 in every
\* reachable state, so currentTightness never exceeds 200.
C38_JamWithinEnergy ==
    variant \in SimpleVariants =>
        /\ bottle.currentTightness + (2 * state.energy) <= 200
        /\ bottle.currentTightness <= 200

\* a jam above 100 built with even forces: the bound is met exactly
C38_Witness ==
    /\ variant \in SimpleVariants
    /\ outcome = "Jammed"
    /\ bottle.currentTightness > 100
    /\ bottle.currentTightness + (2 * state.energy) = 200

---------------------------------------------------------------------------
(* The energy budget of a session of the simple-cost programs: a player    *)
(* who sends moves of force 1 (the cheapest that pass the validation), the *)
(* move that opens the bottle, and the rejected force 0; the clock stands  *)
(* still, so the time check never ends the session.                        *)

DrainInit == Init /\ variant \in SimpleVariants

DrainInputs(v, bt) ==
    { exactMove(v, bt) }
        \cup { [dir |-> "cw", force |-> force, time |-> NaN] :
                   force \in {0, 1} }

DrainLine ==
    /\ pc = "await"
    /\ \E input \in DrainInputs(variant, bottle) : LineStep(input)

DrainNext == Start \/ DrainLine \/ SleepDone \/ Exit

DrainSpec == DrainInit /\ [][DrainNext]_vars

\* the energy a session can still spend: state.energy and the 20 of each
\* level setup to come
energyBudget(st) == st.energy + (20 * (TOTAL_LEVELS - st.level))

\* the step is the segment of a line: runGame was waiting and the clock
\* did not move
lineArrives == pc = "await" /\ clock' = clock

\* one step of a session, measured by energyBudget
budgetStep ==
    /\ energyBudget(state') <= energyBudget(state)
    /\ pc = "await" => energyBudget(state) \in 0..280
    /\ (lineArrives /\ outcome' \notin {"InvalidMove", "Exhausted"})
           => energyBudget(state') <= energyBudget(state) - 1
    /\ (lineArrives /\ outcome' = "Exhausted")
           => (pc' = "done" /\ ~result'.completed)

\* C39: in the simple-cost programs the budget energy + 20 per level to
\* come starts at 280, never grows, and falls by at least 1 with every move
\* that passes the energy check, and a valid move that fails the energy
\* check ends the session; so at most 280 moves pass the energy check and a
\* session that keeps receiving valid moves ends, whatever the clock does.
C39_BoundedMoves == [][budgetStep]_vars

\* a session at the last level, drained to nothing by moves of force 1
C39_Witness ==
    /\ pc = "done" /\ ~result.completed
    /\ outcome = "Exhausted"
    /\ state.level = TOTAL_LEVELS /\ state.energy = 0
    /\ bottle.currentTightness > 0

============================================================================
